---- MODULE Spec2Model ----
(***************************************************************************)
(* A model of DynaPhoPy's phonopy interface                                *)
(* (dynaphopy/interface/phonopy_link.py) and of the QHA extraction script  *)
(* (scripts/qha_extract.py).                                               *)
(*                                                                         *)
(* Three specifications share the module:                                  *)
(*   SpecQHA   one run of scripts/qha_extract.py, statement by statement   *)
(*   SpecLink  calls of the functions of phonopy_link.py on one structure  *)
(*   SpecEV    the eigenvector layout of obtain_eigenvectors_and_          *)
(*             frequencies and its inverse in                              *)
(*             get_renormalized_force_constants                            *)
(*                                                                         *)
(* Python sequences and numpy axes are 0-based; the model's are 1-based,   *)
(* except where an index is an input of the program (projected_on_atom).   *)
(* Real numbers are modelled by integers and exact fractions.              *)
(***************************************************************************)
EXTENDS Integers, Sequences, FiniteSets, TLC

VARIABLES
    \* ---- scripts/qha_extract.py ----
    pc,                   \* the statement the script is at
    ev_file,              \* rows <<volume, electronic energy>> of the -ev file
    fc_shape,             \* <<S, D>>: the tensors of the -fc files are (S, S, D, D)
    target_temperature,   \* args.t
    volumes,
    electronic_energies,
    temperatures,
    fe_phonon,
    entropy,
    cv,
    sort_index,
    max_t_index,          \* phonopy_qha._qha._max_t_index
    target_volume,
    force_constants_mat,
    f_temperature,
    target_fc,
    written,              \* the files written, in order
    ops,                  \* the file operations and computation steps, in order
    \* ---- dynaphopy/interface/phonopy_link.py ----
    heap,                 \* the ForceConstants instances that are alive: the
                          \* structure's and the caller's, each <<instance>> or None
    born,                 \* per instance, the tensor its constructor stored and
                          \* the function that constructed it
    st_fc,                \* structure.get_force_constants(): the name of an
                          \* instance of heap, or NoRef for None
    st_fs,                \* structure.get_force_sets(): <<a ForceSets>>, or None
    st_atoms,             \* <<number_of_atoms, number_of_primitive_atoms>>
    exited,               \* exit() was called
    ret,                  \* what the last call returned
    last,                 \* the last call and the structure as it found it
    derivations,          \* calls of phonon.produce_force_constants so far
    \* ---- the eigenvector layout ----
    ev_pc,
    ev_dims,              \* <<number_of_dimensions, number_of_primitive_atoms>>
    eigenvectors,
    arranged_ev,
    reshaped_ev

qhaVars == <<pc, ev_file, fc_shape, target_temperature, volumes,
             electronic_energies, temperatures, fe_phonon, entropy, cv,
             sort_index, max_t_index, target_volume, force_constants_mat,
             f_temperature, target_fc, written, ops>>

linkVars == <<heap, born, st_fc, st_fs, st_atoms, exited, ret, last,
              derivations>>

evVars == <<ev_pc, ev_dims, eigenvectors, arranged_ev, reshaped_ev>>

vars == <<qhaVars, linkVars, evVars>>

\* Python's None where a sequence, a matrix or an optional value is expected
None == <<>>

\* an integer variable of the script that is not assigned yet
Unset == 0 - 1

\* no ForceConstants instance (None where an instance is expected)
NoRef == "none"

(***************************************************************************)
(* Bounds of the model.                                                    *)
(***************************************************************************)
\* cell volumes are drawn from 2, 4 .. 2 * MaxVolume
MaxVolume == 3
\* each thermal-properties file samples 1 .. NumTemperatures
NumTemperatures == 3
\* supercell atoms S of a force-constant tensor
MaxAtoms == 2
\* spatial dimensions D of a force-constant tensor
MaxDim == 2
\* variants of the numeric contents of input files
MaxSeed == 1
\* diagonal entries of a supercell matrix
MaxCell == 2
\* primitive-cell atoms P
MaxPrimAtoms == 2
\* number_of_atoms / number_of_primitive_atoms
UnitCells == 2
\* coefficients of the entries of a mode matrix
MaxCoefficient == 4

\* kind='quadratic': the order of both interpolations of the script
Order == 2

\* the fewest samples a spline of that order accepts; the script is run with
\* exactly that many volumes (one -fc file, one -tp file, one -ev row each)
NumSamples == Order + 1

(***************************************************************************)
(* Helpers: sequences, exact fractions, numpy arrays.                      *)
(***************************************************************************)
Reverse(s) == [i \in 1..Len(s) |-> s[Len(s) + 1 - i]]

Front(s) == SubSeq(s, 1, Len(s) - 1)

Abs(n) == IF n < 0 THEN -n ELSE n

RECURSIVE Gcd(_, _)
Gcd(a, b) == IF b = 0 THEN a ELSE Gcd(b, a % b)

\* the fraction num/den in lowest terms, with a positive denominator
Rat(num, den) ==
    LET g == Gcd(Abs(num), Abs(den))
        s == IF den < 0 THEN -1 ELSE 1
    IN  [num |-> (s * num) \div g, den |-> (s * den) \div g]

RatAdd(p, q) == Rat(p.num * q.den + q.num * p.den, p.den * q.den)

\* the product of the entries of a sequence of integers
RECURSIVE Product(_)
Product(s) == IF Len(s) = 0 THEN 1 ELSE s[1] * Product(Tail(s))

\* the sum of the entries of a sequence of fractions
RECURSIVE RatSum(_)
RatSum(s) == IF Len(s) = 0 THEN Rat(0, 1) ELSE RatAdd(s[1], RatSum(Tail(s)))

RECURSIVE MaxOf(_)
MaxOf(s) == IF Len(s) = 0 THEN 0
            ELSE LET m == MaxOf(Tail(s)) IN IF s[1] > m THEN s[1] ELSE m

\* the index tuples of a numpy array of the given shape
IndexSet(shape) ==
    {idx \in [1..Len(shape) -> 1..MaxOf(shape)] :
        \A i \in 1..Len(shape) : idx[i] <= shape[i]}

\* np.array(list of equally shaped arrays): the list index becomes axis 0
NpArray(list) ==
    LET shape == <<Len(list)>> \o list[1].shape
    IN  [shape |-> shape,
         at |-> [idx \in IndexSet(shape) |->
                    list[idx[1]].at[SubSeq(idx, 2, Len(idx))]]]

\* ndarray.T: the axes in reverse order
Transpose(a) ==
    LET shape == Reverse(a.shape)
    IN  [shape |-> shape,
         at |-> [idx \in IndexSet(shape) |-> a.at[Reverse(idx)]]]

\* np.argsort of distinct values: the permutation that lists them increasingly
ArgSort(s) ==
    CHOOSE p \in [1..Len(s) -> 1..Len(s)] :
        /\ \A i, j \in 1..Len(s) : i # j => p[i] # p[j]
        /\ \A i \in 1..(Len(s) - 1) : s[p[i]] < s[p[i + 1]]

\* a[index]: numpy's selection of the entries of a by an index array
Take(a, index) == [i \in 1..Len(index) |-> a[index[i]]]

Increasing(s) == \A i \in 1..(Len(s) - 1) : s[i] < s[i + 1]


(***************************************************************************)
(* ForceConstants and the file loaders of phonopy_link.py.                 *)
(***************************************************************************)
DiagMatrix(a, b, c) == <<<<a, 0, 0>>, <<0, b, 0>>, <<0, 0, c>>>>

\* np.identity(3)
Identity == DiagMatrix(1, 1, 1)

\* ForceConstants.__init__ / ForceSets.__init__: supercell defaults to None
ForceConstantsInit(force_constants, supercell) ==
    [array |-> force_constants, supercell |-> supercell]

ForceSetsInit(force_sets, supercell) ==
    [dict |-> force_sets, supercell |-> supercell]

\* ForceConstants.set_supercell / ForceSets.set_supercell
SetSupercell(obj, supercell) == [obj EXCEPT !.supercell = supercell]

\* a loader that forgets the default: the object keeps the constructor's None
LoaderWithoutDefault(obj, supercell) ==
    IF supercell # None THEN SetSupercell(obj, supercell) ELSE obj

\* the if/else both loaders end with
LoaderSupercell(obj, supercell) ==
    IF supercell # None
    THEN SetSupercell(obj, supercell)
    ELSE SetSupercell(obj, Identity)   \* after the printed warning

\* get_force_sets_from_file, on the parsed contents of the file
GetForceSetsFromFile(parsed, fs_supercell) ==
    LoaderSupercell(ForceSetsInit(parsed, None), fs_supercell)

\* get_force_constants_from_file, on the parsed contents of the file
GetForceConstantsFromFile(parsed, fc_supercell) ==
    LoaderSupercell(ForceConstantsInit(parsed, None), fc_supercell)

(***************************************************************************)
(* scripts/qha_extract.py: the input files.                                *)
(* File k of the -fc list, file k of the -tp list and row k of the -ev     *)
(* file describe the same cell (the k-th calculation).                     *)
(***************************************************************************)
Files == 1..NumSamples

\* the ways to write NumSamples distinct volumes as the rows of the -ev file;
\* the volumes are even, so that a volume can lie between two of them
EvFiles ==
    {[k \in Files |-> <<v[k], 10 * k>>] :
        v \in {w \in [Files -> {2 * n : n \in 1..MaxVolume}] :
                  \A i, j \in Files : i # j => w[i] # w[j]}}

\* the records of thermal-properties file k
ThermalProperties(k) ==
    [t \in 1..NumTemperatures |->
        [temperature |-> t,
         free_energy |-> 100 * k + t,
         entropy |-> 200 * k + t,
         heat_capacity |-> 300 * k + t]]

\* the tensor parse_FORCE_CONSTANTS reads from file k: shape (S, S, D, D),
\* every element different from the others of the file
ForceConstantsFile(k) ==
    LET S == fc_shape[1]
        D == fc_shape[2]
        shape == <<S, S, D, D>>
        code(idx) == ((idx[1] - 1) * S + (idx[2] - 1)) * D * D
                        + (idx[3] - 1) * D + (idx[4] - 1)
    IN  [shape |-> shape,
         at |-> [idx \in IndexSet(shape) |->
                    k * k * (1 + code(idx)) + k]]

\* iofile.read_parameters_from_input_file(args.input_file)
InputParameters ==
    [supercell_phonon |-> DiagMatrix(2, 2, 2)]

(***************************************************************************)
(* scipy.interpolate.interp1d as the script uses it: kind='quadratic',     *)
(* the samples along the last axis of y, bounds_error left at its default. *)
(* With exactly Order + 1 samples the spline is the polynomial through     *)
(* them, evaluated here in Lagrange form with exact fractions.             *)
(***************************************************************************)
Lagrange(xs, ys, x) ==
    LET n == Len(xs)
        num(k) == ys[k] * Product([m \in 1..n |-> IF m = k THEN 1 ELSE x - xs[m]])
        den(k) == Product([m \in 1..n |-> IF m = k THEN 1 ELSE xs[k] - xs[m]])
    IN  RatSum([k \in 1..n |-> Rat(num(k), den(k))])

\* interp1d(x, y, kind='quadratic')
Interp1d(x, y) == [x |-> x, y |-> y]

\* whether f(x_new) raises ValueError (x_new outside the range of the samples)
OutOfBounds(f, x_new) == x_new < f.x[1] \/ x_new > f.x[Len(f.x)]

\* f(x_new): interpolation along the last axis, the other axes kept
Interp1dCall(f, x_new) ==
    LET shape == Front(f.y.shape)
    IN  [shape |-> shape,
         at |-> [idx \in IndexSet(shape) |->
                    Lagrange(f.x,
                             [k \in 1..Len(f.x) |-> f.y.at[Append(idx, k)]],
                             x_new)]]


(***************************************************************************)
(* scripts/qha_extract.py: the run.                                        *)
(***************************************************************************)
ReadOps == {"read_ev", "read_tp", "read_input", "read_structure", "read_fc"}

ComputeOps == {"qha_fit", "vt_interp", "fc_interp"}

\* the order of the statements with the structure file read last of all reads
StatementAfterLateRead(p) ==
    CASE p = "read_ev" -> "read_tp"
      [] p = "read_tp" -> "sort"
      [] p = "sort" -> "qha"
      [] p = "qha" -> "fit_vt"
      [] p = "fit_vt" -> "read_input"
      [] p = "read_input" -> "read_fc"
      [] p = "read_fc" -> "stack"
      [] p = "stack" -> "interpolate"
      [] p = "interpolate" -> "read_structure"
      [] p = "read_structure" -> "write"
      [] p = "write" -> "done"

\* the order of the statements with the output written before it is computed
StatementAfterEarlyWrite(p) ==
    CASE p = "read_ev" -> "read_tp"
      [] p = "read_tp" -> "sort"
      [] p = "sort" -> "qha"
      [] p = "qha" -> "fit_vt"
      [] p = "fit_vt" -> "read_input"
      [] p = "read_input" -> "read_structure"
      [] p = "read_structure" -> "read_fc"
      [] p = "read_fc" -> "stack"
      [] p = "stack" -> "write"
      [] p = "write" -> "interpolate"
      [] p = "interpolate" -> "done"

\* the statements of the script in the order of the file
StatementAfter(p) ==
    CASE p = "read_ev" -> "read_tp"                  \* lines 33-37, then 39-70
      [] p = "read_tp" -> "sort"                     \* lines 72-79
      [] p = "sort" -> "qha"                         \* lines 81-101
      [] p = "qha" -> "fit_vt"                       \* lines 103-107
      [] p = "fit_vt" -> "read_input"                \* line 110
      [] p = "read_input" -> "read_structure"        \* lines 112-118
      [] p = "read_structure" -> "read_fc"           \* lines 120-123
      [] p = "read_fc" -> "stack"                    \* lines 125-126
      [] p = "stack" -> "interpolate"                \* line 129
      [] p = "interpolate" -> "write"                \* line 131
      [] p = "write" -> "done"                       \* line 131

QhaInit ==
    /\ pc = "read_ev"
    /\ ev_file \in EvFiles
    /\ fc_shape \in (1..MaxAtoms) \X (1..MaxDim)
    /\ target_temperature \in 0..(NumTemperatures + 1)
    /\ volumes = None
    /\ electronic_energies = None
    /\ temperatures = <<>>
    /\ fe_phonon = <<>>
    /\ entropy = <<>>
    /\ cv = <<>>
    /\ sort_index = None
    /\ max_t_index = Unset
    /\ target_volume = Unset
    /\ force_constants_mat = <<>>
    /\ f_temperature = None
    /\ target_fc = None
    /\ written = <<>>
    /\ ops = <<>>

\* lines 33-37: np.loadtxt(args.ev) and its two columns
ReadEnergyVolume ==
    /\ pc = "read_ev"
    /\ UNCHANGED <<linkVars, evVars>>
    /\ volumes' = [k \in 1..Len(ev_file) |-> ev_file[k][1]]
    /\ electronic_energies' = [k \in 1..Len(ev_file) |-> ev_file[k][2]]
    /\ ops' = Append(ops, "read_ev")
    /\ pc' = StatementAfter(pc)
    /\ UNCHANGED <<ev_file, fc_shape, target_temperature, temperatures,
                   fe_phonon, entropy, cv, sort_index, max_t_index,
                   target_volume, force_constants_mat, f_temperature,
                   target_fc, written>>

\* lines 54-70: one turn of the loop over tp_filenames (the sorted -tp list);
\* temperatures is overwritten by every file
ReadThermalProperties ==
    /\ pc = "read_tp"
    /\ UNCHANGED <<linkVars, evVars>>
    /\ Len(fe_phonon) < NumSamples
    /\ LET tp == ThermalProperties(Len(fe_phonon) + 1)
       IN  /\ temperatures' = [t \in DOMAIN tp |-> tp[t].temperature]
           /\ fe_phonon' = Append(fe_phonon, [t \in DOMAIN tp |-> tp[t].free_energy])
           /\ entropy' = Append(entropy, [t \in DOMAIN tp |-> tp[t].entropy])
           /\ cv' = Append(cv, [t \in DOMAIN tp |-> tp[t].heat_capacity])
    /\ ops' = Append(ops, "read_tp")
    /\ pc' = IF Len(fe_phonon') = NumSamples THEN StatementAfter(pc) ELSE pc
    /\ UNCHANGED <<ev_file, fc_shape, target_temperature, volumes,
                   electronic_energies, sort_index, max_t_index, target_volume,
                   force_constants_mat, f_temperature, target_fc, written>>

\* np.array(m).T[:, index] of a list m of per-file columns
SortedColumns(m, index) ==
    [t \in 1..Len(m[1]) |-> [c \in 1..Len(index) |-> m[index[c]][t]]]

\* lines 72-79: volumes, energies and thermal columns sorted by volume
SortByVolume ==
    /\ pc = "sort"
    /\ UNCHANGED <<linkVars, evVars>>
    /\ LET index == ArgSort(volumes)
       IN  /\ sort_index' = index
           /\ volumes' = Take(volumes, index)
           /\ electronic_energies' = Take(electronic_energies, index)
           /\ fe_phonon' = SortedColumns(fe_phonon, index)
           /\ entropy' = SortedColumns(entropy, index)
           /\ cv' = SortedColumns(cv, index)
    /\ ops' = Append(ops, "sort")
    /\ pc' = StatementAfter(pc)
    /\ UNCHANGED <<ev_file, fc_shape, target_temperature, temperatures,
                   max_t_index, target_volume, force_constants_mat,
                   f_temperature, target_fc, written>>

\* lines 82-96: PhonopyQHA fits the equation of state; the index up to which
\* it reports equilibrium volumes is the library's
QhaFit ==
    /\ pc = "qha"
    /\ UNCHANGED <<linkVars, evVars>>
    /\ max_t_index' \in 0..Len(temperatures)
    /\ ops' = Append(ops, "qha_fit")
    /\ pc' = StatementAfter(pc)
    /\ UNCHANGED <<ev_file, fc_shape, target_temperature, volumes,
                   electronic_energies, temperatures, fe_phonon, entropy, cv,
                   sort_index, target_volume, force_constants_mat,
                   f_temperature, target_fc, written>>

\* qha_temperatures = _temperatures[:max_t_index]
QhaTemperatures == SubSeq(temperatures, 1, max_t_index)

\* whether lines 106-107 raise: too few samples for a quadratic spline, or the
\* target temperature outside the fitted temperatures
FitVtRaises ==
    \/ Len(QhaTemperatures) < Order + 1
    \/ OutOfBounds(Interp1d(QhaTemperatures, None), target_temperature)

\* lines 104-107: the equilibrium volume at the target temperature; its value
\* comes out of the library's fit and may be any volume
FitVt ==
    /\ pc = "fit_vt"
    /\ UNCHANGED <<linkVars, evVars>>
    /\ ops' = Append(ops, "vt_interp")
    /\ IF FitVtRaises
       THEN /\ pc' = "raised"
            /\ UNCHANGED target_volume
       ELSE /\ pc' = StatementAfter(pc)
            /\ target_volume' \in 1..(2 * MaxVolume + 1)
    /\ UNCHANGED <<ev_file, fc_shape, target_temperature, volumes,
                   electronic_energies, temperatures, fe_phonon, entropy, cv,
                   sort_index, max_t_index, force_constants_mat, f_temperature,
                   target_fc, written>>

\* line 110
ReadInputParameters ==
    /\ pc = "read_input"
    /\ UNCHANGED <<linkVars, evVars>>
    /\ ops' = Append(ops, "read_input")
    /\ pc' = StatementAfter(pc)
    /\ UNCHANGED <<ev_file, fc_shape, target_temperature, volumes,
                   electronic_energies, temperatures, fe_phonon, entropy, cv,
                   sort_index, max_t_index, target_volume, force_constants_mat,
                   f_temperature, target_fc, written>>

\* lines 112-118
ReadStructure ==
    /\ pc = "read_structure"
    /\ UNCHANGED <<linkVars, evVars>>
    /\ ops' = Append(ops, "read_structure")
    /\ pc' = StatementAfter(pc)
    /\ UNCHANGED <<ev_file, fc_shape, target_temperature, volumes,
                   electronic_energies, temperatures, fe_phonon, entropy, cv,
                   sort_index, max_t_index, target_volume, force_constants_mat,
                   f_temperature, target_fc, written>>

\* lines 121-123: one turn of the loop over fc_filenames (the sorted -fc list)
ReadForceConstants ==
    /\ pc = "read_fc"
    /\ UNCHANGED <<linkVars, evVars>>
    /\ Len(force_constants_mat) < NumSamples
    /\ LET k == Len(force_constants_mat) + 1
           force_constants ==
               GetForceConstantsFromFile(ForceConstantsFile(k),
                                         InputParameters.supercell_phonon)
       IN  force_constants_mat' =
               Append(force_constants_mat, force_constants.array)
    /\ ops' = Append(ops, "read_fc")
    /\ pc' = IF Len(force_constants_mat') = NumSamples THEN StatementAfter(pc) ELSE pc
    /\ UNCHANGED <<ev_file, fc_shape, target_temperature, volumes,
                   electronic_energies, temperatures, fe_phonon, entropy, cv,
                   sort_index, max_t_index, target_volume, f_temperature,
                   target_fc, written>>

\* lines 125-126: the tensors stacked in file order, volume axis last, and the
\* interpolator over the sorted volumes
StackForceConstants ==
    /\ pc = "stack"
    /\ UNCHANGED <<linkVars, evVars>>
    /\ force_constants_mat' = Transpose(NpArray(force_constants_mat))
    /\ f_temperature' = Interp1d(volumes, force_constants_mat')
    /\ ops' = Append(ops, "stack")
    /\ pc' = StatementAfter(pc)
    /\ UNCHANGED <<ev_file, fc_shape, target_temperature, volumes,
                   electronic_energies, temperatures, fe_phonon, entropy, cv,
                   sort_index, max_t_index, target_volume, target_fc, written>>

\* f_temperature(target_volume) without the transposition back
TargetFcNotTransposed(f, x_new) == Interp1dCall(f, x_new)

\* line 129: f_temperature(target_volume).T
TargetFc(f, x_new) == Transpose(Interp1dCall(f, x_new))

Interpolate ==
    /\ pc = "interpolate"
    /\ UNCHANGED <<linkVars, evVars>>
    /\ ops' = Append(ops, "fc_interp")
    /\ IF OutOfBounds(f_temperature, target_volume)
       THEN /\ pc' = "raised"
            /\ UNCHANGED target_fc
       ELSE /\ pc' = StatementAfter(pc)
            /\ target_fc' = TargetFc(f_temperature, target_volume)
    /\ UNCHANGED <<ev_file, fc_shape, target_temperature, volumes,
                   electronic_energies, temperatures, fe_phonon, entropy, cv,
                   sort_index, max_t_index, target_volume, force_constants_mat,
                   f_temperature, written>>

\* line 131: phonopy_link.write_FORCE_CONSTANTS
WriteForceConstants ==
    /\ pc = "write"
    /\ UNCHANGED <<linkVars, evVars>>
    /\ written' = Append(written, [filename |-> "FORCE_CONSTANTS_TEST",
                                   force_constants |-> target_fc])
    /\ ops' = Append(ops, "write_fc")
    /\ pc' = StatementAfter(pc)
    /\ UNCHANGED <<ev_file, fc_shape, target_temperature, volumes,
                   electronic_energies, temperatures, fe_phonon, entropy, cv,
                   sort_index, max_t_index, target_volume, force_constants_mat,
                   f_temperature, target_fc>>

QhaNext ==
    \/ ReadEnergyVolume
    \/ ReadThermalProperties
    \/ SortByVolume
    \/ QhaFit
    \/ FitVt
    \/ ReadInputParameters
    \/ ReadStructure
    \/ ReadForceConstants
    \/ StackForceConstants
    \/ Interpolate
    \/ WriteForceConstants


(***************************************************************************)
(* dynaphopy/interface/phonopy_link.py: calls on one structure.            *)
(*                                                                         *)
(* A tensor, a force-sets dictionary and a density of states are numbers   *)
(* here: what matters is which object holds which, and who changes it.     *)
(* Two ForceConstants instances can be alive at a time: the one the        *)
(* structure holds and the one the caller got from its last call.          *)
(***************************************************************************)
Tensors == 0..MaxSeed

Supercells == {DiagMatrix(a, a, a) : a \in 1..MaxCell}

\* structure.get_supercell_phonon()
SupercellPhonon == DiagMatrix(MaxCell, MaxCell, MaxCell)

\* phonon.produce_force_constants on a displacement dataset
ProduceForceConstants(dict) == 10 + dict

\* set_tensor_symmetry_PJ: a projection (applied twice it changes nothing
\* more) that works on the array it is given
SetTensorSymmetryPJ(array) == array - (array % 2)

\* the mesh frequencies of a density of states
FrequencyPoints == <<1, 2>>

\* phonon.get_partial_DOS()[1][atom], atom counted from 0
PartialDOS(force_constants, atom) ==
    [f \in DOMAIN FrequencyPoints |-> force_constants + 20 * (atom + 1) + f]

\* phonon.get_total_DOS()[1]
TotalDOS(force_constants) ==
    [f \in DOMAIN FrequencyPoints |-> force_constants + 100 + f]

\* dos * float(number_of_atoms) / number_of_primitive_atoms
NormalizeToUnitCell(dos) ==
    [f \in DOMAIN dos |-> (dos[f] * st_atoms[1]) \div st_atoms[2]]

Call(op, setup_forces, force_constants, supercell, atom, symmetrize) ==
    [op |-> op, setup_forces |-> setup_forces, force_constants |-> force_constants,
     supercell |-> supercell, atom |-> atom, symmetrize |-> symmetrize]

Returned(kind, value) == [kind |-> kind, value |-> value]

\* what exit() leaves behind: no return value
Exit == Returned("exit", None)

Constructed(array, by) == [array |-> array, by |-> by]

NoCall == Call("nothing", FALSE, NoRef, None, Unset, FALSE)

NoResult == Returned("nothing", None)

\* the instances that are alive
Alive == {r \in DOMAIN heap : heap[r] # None}

\* the process is alive and the caller is about to make a call, holding
\* nothing or the ForceConstants its last call returned
Ready == ~exited /\ ret.kind \in {"nothing", "force_constants"}

LinkInit ==
    /\ \E array \in Tensors, has \in BOOLEAN :
          /\ heap = [structure |-> IF has
                                   THEN <<ForceConstantsInit(array, SupercellPhonon)>>
                                   ELSE None,
                     caller |-> None]
          /\ born = [structure |-> IF has THEN <<Constructed(array, "caller")>>
                                   ELSE None,
                     caller |-> None]
          /\ st_fc = IF has THEN "structure" ELSE NoRef
    /\ st_fs \in {None} \cup {<<ForceSetsInit(d, SupercellPhonon)>> : d \in Tensors}
    /\ \E P \in 1..MaxPrimAtoms : st_atoms = <<UnitCells * P, P>>
    /\ exited = FALSE
    /\ ret = NoResult
    /\ last = NoCall
    /\ derivations = 0

\* the phonon object before any force data is set on it
NewPhonon(NAC, custom_supercell) ==
    [supercell |-> IF custom_supercell = None THEN SupercellPhonon
                   ELSE custom_supercell,
     nac |-> NAC, force_constants |-> None]

\* lines 104-107: force constants derived from the force sets and stored on
\* the structure as a new ForceConstants
Derive(phonon) ==
    LET fc == ProduceForceConstants(st_fs[1].dict)
    IN  [exit |-> FALSE,
         phonon |-> [phonon EXCEPT !.force_constants = <<fc>>],
         heap |-> [heap EXCEPT !.structure =
                      <<ForceConstantsInit(fc, st_fs[1].supercell)>>],
         born |-> [born EXCEPT !.structure = <<Constructed(fc, "get_phonon")>>],
         st_fc |-> "structure", derived |-> 1]

\* line 102: the structure's force constants set on the phonon object
UseStored(phonon) ==
    [exit |-> FALSE,
     phonon |-> [phonon EXCEPT !.force_constants = <<heap[st_fc][1].array>>],
     heap |-> heap, born |-> born, st_fc |-> st_fc, derived |-> 0]

Untouched(phonon, exit) ==
    [exit |-> exit, phonon |-> phonon, heap |-> heap, born |-> born,
     st_fc |-> st_fc, derived |-> 0]

\* get_phonon with the two force sources tried in the other order
GetPhononForceSetsFirst(NAC, setup_forces, custom_supercell) ==
    LET phonon == NewPhonon(NAC, custom_supercell)
    IN  IF ~setup_forces THEN Untouched(phonon, FALSE)
        ELSE IF st_fs # None THEN Derive(phonon)
        ELSE IF st_fc # NoRef THEN UseStored(phonon)
        ELSE Untouched(phonon, TRUE)

\* get_phonon without the exit() of its last branch
GetPhononNoExit(NAC, setup_forces, custom_supercell) ==
    LET phonon == NewPhonon(NAC, custom_supercell)
    IN  IF ~setup_forces THEN Untouched(phonon, FALSE)
        ELSE IF st_fc # NoRef THEN UseStored(phonon)
        ELSE IF st_fs # None THEN Derive(phonon)
        ELSE Untouched(phonon, FALSE)

\* get_phonon(structure, NAC, setup_forces, custom_supercell): whether it
\* exits, the phonon object it returns, and the structure and instances after
GetPhonon(NAC, setup_forces, custom_supercell) ==
    LET phonon == NewPhonon(NAC, custom_supercell)
    IN  IF ~setup_forces THEN Untouched(phonon, FALSE)
        ELSE IF st_fc # NoRef THEN UseStored(phonon)
        ELSE IF st_fs # None THEN Derive(phonon)
        ELSE Untouched(phonon, TRUE)     \* 'No force sets/constants available!'

\* the force constants a phonon object computes with (none were set: zero)
ForceConstantsOf(phonon) ==
    IF phonon.force_constants = None THEN 0 ELSE phonon.force_constants[1]

\* what every caller of get_phonon does with its outcome
AfterGetPhonon(g) ==
    /\ heap' = g.heap
    /\ born' = g.born
    /\ st_fc' = g.st_fc
    /\ derivations' = derivations + g.derived
    /\ exited' = g.exit
    /\ UNCHANGED <<st_fs, st_atoms>>

\* phonon.set_force_constants(force_constants.get_array())
WithForceConstants(g, ref) ==
    [g EXCEPT !.phonon.force_constants = <<heap[ref][1].array>>]

\* the phonon object of the three obtain_* functions that take force_constants
PhononFor(NAC, ref) ==
    IF ref = NoRef
    THEN GetPhonon(NAC, TRUE, None)
    ELSE WithForceConstants(GetPhonon(FALSE, FALSE, heap[ref][1].supercell), ref)

LoadForceSets ==
    /\ ~exited /\ ret = NoResult
    /\ UNCHANGED <<qhaVars, evVars>>
    /\ \E parsed \in Tensors, fs_supercell \in {None} \cup Supercells :
          /\ ret' = Returned("force_sets", GetForceSetsFromFile(parsed, fs_supercell))
          /\ last' = Call("get_force_sets_from_file", FALSE, NoRef, fs_supercell,
                          Unset, FALSE)
    /\ UNCHANGED <<heap, born, st_fc, st_fs, st_atoms, exited, derivations>>

LoadForceConstants ==
    /\ ~exited /\ ret = NoResult
    /\ UNCHANGED <<qhaVars, evVars>>
    /\ \E parsed \in Tensors, fc_supercell \in {None} \cup Supercells :
          /\ heap' = [heap EXCEPT !.caller =
                         <<GetForceConstantsFromFile(parsed, fc_supercell)>>]
          /\ born' = [born EXCEPT !.caller =
                         <<Constructed(parsed, "get_force_constants_from_file")>>]
          /\ ret' = Returned("force_constants", "caller")
          /\ last' = Call("get_force_constants_from_file", FALSE, NoRef,
                          fc_supercell, Unset, FALSE)
    /\ UNCHANGED <<st_fc, st_fs, st_atoms, exited, derivations>>

\* structure.set_force_set(get_force_sets_from_file(...)), as in __main__
SetForceSet ==
    /\ ~exited
    /\ UNCHANGED <<qhaVars, evVars>>
    /\ ret.kind = "force_sets"
    /\ st_fs' = <<ret.value>>
    /\ ret' = NoResult
    /\ last' = NoCall
    /\ UNCHANGED <<heap, born, st_fc, st_atoms, exited, derivations>>

\* the caller is done with what its calls returned and goes on
Continue ==
    /\ ~exited
    /\ UNCHANGED <<qhaVars, evVars>>
    /\ ret # NoResult
    /\ ret' = NoResult
    /\ last' = NoCall
    /\ heap' = [heap EXCEPT !.caller = None]
    /\ born' = [born EXCEPT !.caller = None]
    /\ UNCHANGED <<st_fc, st_fs, st_atoms, exited, derivations>>

CallGetPhonon ==
    /\ Ready
    /\ UNCHANGED <<qhaVars, evVars>>
    /\ \E NAC \in BOOLEAN, setup_forces \in BOOLEAN,
          custom_supercell \in {None} \cup Supercells :
          LET g == GetPhonon(NAC, setup_forces, custom_supercell)
          IN  /\ AfterGetPhonon(g)
              /\ ret' = IF g.exit THEN Exit ELSE Returned("phonon", g.phonon)
              /\ last' = Call("get_phonon", setup_forces, NoRef, custom_supercell,
                              Unset, FALSE)

ObtainEigenvectorsAndFrequencies ==
    /\ Ready
    /\ UNCHANGED <<qhaVars, evVars>>
    /\ \E NAC \in BOOLEAN :
          LET g == GetPhonon(NAC, TRUE, None)
          IN  /\ AfterGetPhonon(g)
              /\ ret' = IF g.exit THEN Exit
                        ELSE Returned("eigenvectors", g.phonon.force_constants)
              /\ last' = Call("obtain_eigenvectors_and_frequencies", TRUE, NoRef,
                              None, Unset, FALSE)

\* obtain_phonopy_dos with the range check letting the first atom index past
\* the end through
PhonopyDosOffByOne(phonon, projected_on_atom) ==
    IF projected_on_atom < 0
    THEN Returned("dos", <<FrequencyPoints,
                           NormalizeToUnitCell(TotalDOS(ForceConstantsOf(phonon)))>>)
    ELSE IF projected_on_atom > st_atoms[2]
    THEN Exit
    ELSE Returned("dos", <<FrequencyPoints,
                           NormalizeToUnitCell(
                               PartialDOS(ForceConstantsOf(phonon),
                                          projected_on_atom))>>)

\* lines 160-178 of obtain_phonopy_dos, on the phonon object it built; the
\* partial DOS has one entry per primitive-cell atom
PhonopyDos(phonon, projected_on_atom) ==
    IF projected_on_atom < 0
    THEN Returned("dos", <<FrequencyPoints,
                           NormalizeToUnitCell(TotalDOS(ForceConstantsOf(phonon)))>>)
    ELSE IF projected_on_atom >= st_atoms[2]
    THEN Exit       \* 'No atom type ...'
    ELSE Returned("dos", <<FrequencyPoints,
                           NormalizeToUnitCell(
                               PartialDOS(ForceConstantsOf(phonon),
                                          projected_on_atom))>>)

ObtainPhonopyDos ==
    /\ Ready
    /\ UNCHANGED <<qhaVars, evVars>>
    /\ \E force_constants \in {NoRef} \cup Alive,
          projected_on_atom \in (0 - 2)..MaxPrimAtoms :
          LET g == PhononFor(FALSE, force_constants)
              r == IF g.exit THEN Exit ELSE PhonopyDos(g.phonon, projected_on_atom)
          IN  /\ AfterGetPhonon([g EXCEPT !.exit = (r.kind = "exit")])
              /\ ret' = r
              /\ last' = Call("obtain_phonopy_dos", force_constants = NoRef,
                              force_constants, None, projected_on_atom, FALSE)

ObtainPhonopyThermalProperties ==
    /\ Ready
    /\ UNCHANGED <<qhaVars, evVars>>
    /\ \E force_constants \in {NoRef} \cup Alive :
          LET g == PhononFor(FALSE, force_constants)
          IN  /\ AfterGetPhonon(g)
              /\ ret' = IF g.exit THEN Exit
                        ELSE Returned("thermal_properties",
                                      NormalizeToUnitCell(
                                          <<ForceConstantsOf(g.phonon) + 1,
                                            ForceConstantsOf(g.phonon) + 2,
                                            ForceConstantsOf(g.phonon) + 3>>))
              /\ last' = Call("obtain_phonopy_thermal_properties",
                              force_constants = NoRef, force_constants, None,
                              Unset, FALSE)

ObtainPhononDispersionBands ==
    /\ Ready
    /\ UNCHANGED <<qhaVars, evVars>>
    /\ \E force_constants \in {NoRef} \cup Alive, NAC \in BOOLEAN :
          LET g == PhononFor(NAC, force_constants)
          IN  /\ AfterGetPhonon(g)
              /\ ret' = IF g.exit THEN Exit
                        ELSE Returned("band_structure", g.phonon.force_constants)
              /\ last' = Call("obtain_phonon_dispersion_bands",
                              force_constants = NoRef, force_constants, None,
                              Unset, FALSE)

GetCommensuratePoints ==
    /\ Ready
    /\ UNCHANGED <<qhaVars, evVars>>
    /\ \E fc_supercell \in Supercells :
          LET g == GetPhonon(FALSE, FALSE, fc_supercell)
          IN  /\ AfterGetPhonon(g)
              /\ ret' = Returned("commensurate_points", g.phonon.supercell)
              /\ last' = Call("get_commensurate_points", FALSE, NoRef,
                              fc_supercell, Unset, FALSE)

\* the instances after a reconstruction that writes its tensor into the
\* instance the structure already holds
RenormalizedInstancesInPlace(reconstructed, fc_supercell, symmetrize) ==
    IF st_fc # NoRef
    THEN [heap EXCEPT ![st_fc] = <<[heap[st_fc][1] EXCEPT !.array = reconstructed]>>]
    ELSE [heap EXCEPT !.caller = <<ForceConstantsInit(reconstructed, fc_supercell)>>]

\* lines 280-290 of get_renormalized_force_constants: the instance is
\* constructed around the reconstructed tensor, and with symmetrize the
\* tensor it holds is then symmetrized where it is
RenormalizedInstances(reconstructed, fc_supercell, symmetrize) ==
    LET force_constants == ForceConstantsInit(reconstructed, fc_supercell)
    IN  [heap EXCEPT !.caller =
            <<IF symmetrize
              THEN [force_constants EXCEPT
                       !.array = SetTensorSymmetryPJ(force_constants.array)]
              ELSE force_constants>>]

\* reconstructed stands for dynmat2fc.get_force_constants(), the outcome of
\* the library's inverse transform of the frequencies and eigenvectors
GetRenormalizedForceConstants ==
    /\ ~exited /\ ret = NoResult
    /\ UNCHANGED <<qhaVars, evVars>>
    /\ \E reconstructed \in Tensors, fc_supercell \in Supercells,
          symmetrize \in BOOLEAN :
          LET instances == RenormalizedInstances(reconstructed, fc_supercell,
                                                 symmetrize)
          IN  /\ heap' = instances
              /\ born' = IF instances.caller # None
                         THEN [born EXCEPT !.caller =
                                 <<Constructed(reconstructed,
                                               IF symmetrize
                                               THEN "get_renormalized_force_constants(symmetrize)"
                                               ELSE "get_renormalized_force_constants")>>]
                         ELSE born
              /\ ret' = Returned("force_constants", "caller")
              /\ last' = Call("get_renormalized_force_constants", FALSE, NoRef,
                              fc_supercell, Unset, symmetrize)
    /\ UNCHANGED <<st_fc, st_fs, st_atoms, exited, derivations>>

LinkNext ==
    \/ LoadForceSets
    \/ LoadForceConstants
    \/ SetForceSet
    \/ Continue
    \/ CallGetPhonon
    \/ ObtainEigenvectorsAndFrequencies
    \/ ObtainPhonopyDos
    \/ ObtainPhonopyThermalProperties
    \/ ObtainPhononDispersionBands
    \/ GetCommensuratePoints
    \/ GetRenormalizedForceConstants

(***************************************************************************)
(* The eigenvector layout: obtain_eigenvectors_and_frequencies arranges    *)
(* the (D*P) x (D*P) matrix of a q-point by mode, atom and dimension;      *)
(* get_renormalized_force_constants reshapes such an arrangement and       *)
(* transposes it.                                                          *)
(***************************************************************************)
\* the offset of an index tuple in row-major (order='C') storage
RECURSIVE FlatIndex(_, _)
FlatIndex(idx, shape) ==
    IF Len(shape) = 0 THEN 0
    ELSE FlatIndex(Front(idx), Front(shape)) * shape[Len(shape)]
            + (idx[Len(idx)] - 1)

\* a.reshape(shape, order='C')
Reshape(a, shape) ==
    [shape |-> shape,
     at |-> [idx \in IndexSet(shape) |->
                a.at[CHOOSE old \in IndexSet(a.shape) :
                        FlatIndex(old, a.shape) = FlatIndex(idx, shape)]]]

\* the arrangement with the atom index running fastest
ArrangeDimensionMajor(ev, D, P) ==
    LET shape == <<D * P, P, D>>
    IN  [shape |-> shape,
         at |-> [idx \in IndexSet(shape) |->
                    ev.at[<<(idx[3] - 1) * P + idx[2], idx[1]>>]]]

\* lines 136-139: arranged_ev[i][j][k] = eigenvectors[j*D + k, i]
ArrangeEigenvectors(ev, D, P) ==
    LET shape == <<D * P, P, D>>
    IN  [shape |-> shape,
         at |-> [idx \in IndexSet(shape) |->
                    ev.at[<<(idx[2] - 1) * D + idx[3], idx[1]>>]]]

\* line 275: eigenvector.reshape(size, size, order='C').T
ReshapeEigenvector(eigenvector, size) ==
    Transpose(Reshape(eigenvector, <<size, size>>))

\* the matrices the layout is tried on: entry (r, c) is a*(r-1) + b*(c-1) + s
ModeMatrix(size, a, b, s) ==
    [shape |-> <<size, size>>,
     at |-> [idx \in IndexSet(<<size, size>>) |->
                a * (idx[1] - 1) + b * (idx[2] - 1) + s]]

EvInit ==
    /\ ev_pc = "eigenvectors"
    /\ ev_dims \in (1..MaxDim) \X (1..MaxPrimAtoms)
    /\ \E a \in 0..MaxCoefficient, b \in 0..MaxCoefficient, s \in 0..MaxSeed :
          eigenvectors = ModeMatrix(ev_dims[1] * ev_dims[2], a, b, s)
    /\ arranged_ev = None
    /\ reshaped_ev = None

Arrange ==
    /\ ev_pc = "eigenvectors"
    /\ UNCHANGED <<qhaVars, linkVars>>
    /\ arranged_ev' = ArrangeEigenvectors(eigenvectors, ev_dims[1], ev_dims[2])
    /\ ev_pc' = "arranged"
    /\ UNCHANGED <<ev_dims, eigenvectors, reshaped_ev>>

ReshapeBack ==
    /\ ev_pc = "arranged"
    /\ UNCHANGED <<qhaVars, linkVars>>
    /\ reshaped_ev' = ReshapeEigenvector(arranged_ev, ev_dims[1] * ev_dims[2])
    /\ ev_pc' = "reshaped"
    /\ UNCHANGED <<ev_dims, eigenvectors, arranged_ev>>

EvNext == Arrange \/ ReshapeBack

(***************************************************************************)
(* The specifications.  Each runs one part; the variables of the other     *)
(* parts stay as they start.                                               *)
(***************************************************************************)
QhaIdle ==
    /\ pc = "idle"
    /\ ev_file = <<>>
    /\ fc_shape = <<1, 1>>
    /\ target_temperature = Unset
    /\ volumes = None
    /\ electronic_energies = None
    /\ temperatures = <<>>
    /\ fe_phonon = <<>>
    /\ entropy = <<>>
    /\ cv = <<>>
    /\ sort_index = None
    /\ max_t_index = Unset
    /\ target_volume = Unset
    /\ force_constants_mat = <<>>
    /\ f_temperature = None
    /\ target_fc = None
    /\ written = <<>>
    /\ ops = <<>>

LinkIdle ==
    /\ heap = [structure |-> None, caller |-> None]
    /\ born = [structure |-> None, caller |-> None]
    /\ st_fc = NoRef
    /\ st_fs = None
    /\ st_atoms = <<1, 1>>
    /\ exited = FALSE
    /\ ret = NoResult
    /\ last = NoCall
    /\ derivations = 0

EvIdle ==
    /\ ev_pc = "idle"
    /\ ev_dims = <<1, 1>>
    /\ eigenvectors = None
    /\ arranged_ev = None
    /\ reshaped_ev = None

InitQHA == QhaInit /\ LinkIdle /\ EvIdle

InitLink == LinkInit /\ QhaIdle /\ EvIdle

InitEV == EvInit /\ QhaIdle /\ LinkIdle

SpecQHA == InitQHA /\ [][QhaNext]_vars

SpecLink == InitLink /\ [][LinkNext]_vars

SpecEV == InitEV /\ [][EvNext]_vars


(***************************************************************************)
(* The claims about scripts/qha_extract.py, checked under SpecQHA.         *)
(***************************************************************************)

\* C1: for every order of the rows of the energy-volume file, the volumes
\* handed to the force-constant interpolator increase and the k-th tensor
\* handed to it is the tensor of the calculation whose volume is the k-th of
\* them (the tensors follow the volume sort).
C1_TensorsFollowVolumeSort ==
    (\E i \in DOMAIN ops : ops[i] = "stack") =>
        LET f == f_temperature
            shape == <<fc_shape[1], fc_shape[1], fc_shape[2], fc_shape[2]>>
            handed(k) == [shape |-> shape,
                          at |-> [idx \in IndexSet(shape) |->
                                     f.y.at[Append(Reverse(idx), k)]]]
            fileOf(v) == CHOOSE k \in Files : ev_file[k][1] = v
        IN  /\ Increasing(f.x)
            /\ \A k \in 1..Len(f.x) :
                  handed(k) = ForceConstantsFile(fileOf(f.x[k]))

\* C5 as stated: every file read is completed before the first computation
\* step (QHA fit, volume-temperature interpolation, force-constant
\* interpolation); no read follows a computation step.
C5_AllReadsBeforeComputation ==
    \A i, j \in DOMAIN ops :
        (ops[i] \in ComputeOps /\ ops[j] \in ReadOps) => j < i

\* C5 as amended: the energy-volume and thermal-properties reads are completed
\* before the first computation step; the input-parameter, structure and
\* force-constants reads come after the QHA fit and the volume-temperature
\* interpolation and before the force-constant interpolation; no read follows
\* the force-constant interpolation.
C5_ReadsBeforeTheirUse ==
    \A i, j \in DOMAIN ops :
        /\ (ops[i] \in {"read_ev", "read_tp"} /\ ops[j] \in ComputeOps) => i < j
        /\ (ops[i] \in {"read_input", "read_structure", "read_fc"}
              /\ ops[j] \in {"qha_fit", "vt_interp"}) => j < i
        /\ (ops[i] \in ReadOps /\ ops[j] = "fc_interp") => i < j

C5_Witness ==
    /\ pc = "done"
    /\ \E i, j \in DOMAIN ops :
          i < j /\ ops[i] = "vt_interp" /\ ops[j] = "read_structure"

C7_ElementwiseInterpolation ==
    pc \in {"write", "done"} =>
        LET shape == <<fc_shape[1], fc_shape[1], fc_shape[2], fc_shape[2]>>
            sample == [k \in Files |-> ForceConstantsFile(k)]
        IN  /\ target_fc.shape = shape
            /\ DOMAIN target_fc.at = IndexSet(shape)
            /\ \A idx \in IndexSet(shape) :
                  /\ target_fc.at[idx] =
                        Lagrange(volumes, [k \in Files |-> sample[k].at[idx]],
                                 target_volume)
                  /\ \A k \in Files :
                        target_volume = volumes[k] =>
                            target_fc.at[idx] = Rat(sample[k].at[idx], 1)

C7_Witness ==
    /\ pc = "done"
    /\ fc_shape = <<2, 1>>
    /\ target_volume = volumes[2]
    /\ target_fc.at[<<2, 1, 1, 1>>] = Rat(ForceConstantsFile(2).at[<<2, 1, 1, 1>>], 1)
    /\ target_fc.at[<<2, 1, 1, 1>>] # target_fc.at[<<1, 2, 1, 1>>]

(***************************************************************************)
(* The claims about phonopy_link.py, checked under SpecLink.               *)
(***************************************************************************)

\* C2: a call that builds its phonon object with setup_forces=True
\* (get_phonon itself, obtain_eigenvectors_and_frequencies, and the three
\* obtain_* functions called without force_constants) on a structure with
\* neither force constants nor force sets ends the process: nothing is
\* returned, no force data is attached to the structure, and no call follows.
C2_MissingForceDataExits ==
    /\ [][(/\ last'.setup_forces
           /\ last'.op \in {"get_phonon", "obtain_eigenvectors_and_frequencies",
                            "obtain_phonopy_dos",
                            "obtain_phonopy_thermal_properties",
                            "obtain_phonon_dispersion_bands"}
           /\ st_fc = NoRef
           /\ st_fs = None)
          =>  /\ exited'
              /\ ret' = Exit
              /\ st_fc' = NoRef
              /\ st_fs' = None
              /\ heap' = heap]_vars
    /\ [][~exited]_vars

C2_Witness ==
    /\ exited
    /\ last.op = "obtain_phonopy_thermal_properties"
    /\ st_fc = NoRef
    /\ st_fs = None

\* C3 as stated: once a ForceConstants instance is constructed its tensor is
\* never changed; every transformation, the symmetrization included, delivers
\* a new instance.
C3_TensorNeverChanged ==
    \A r \in Alive : heap[r][1].array = born[r][1].array

\* C3 as amended: no operation changes the tensor of a ForceConstants instance
\* that existed when the operation was called, and results are delivered in
\* new instances; the one write in place is the symmetrization step, which
\* overwrites the tensor of the instance get_renormalized_force_constants has
\* just constructed, before that instance is returned.
C3_OnlyOwnInstanceSymmetrizedInPlace ==
    /\ [][\A r \in Alive :
             heap'[r] # None => heap'[r][1].array = heap[r][1].array]_vars
    /\ [](\A r \in Alive :
             heap[r][1].array # born[r][1].array =>
                /\ born[r][1].by = "get_renormalized_force_constants(symmetrize)"
                /\ heap[r][1].array = SetTensorSymmetryPJ(born[r][1].array))

C3_Witness ==
    /\ last.op = "get_renormalized_force_constants"
    /\ last.symmetrize
    /\ st_fc = "structure"
    /\ heap.caller[1].array # born.caller[1].array

\* C4: a loader called without a supercell returns an object whose supercell
\* is the 3x3 identity, called with one an object whose supercell is the one
\* supplied; the supercell of the returned object is never None.
C4_LoadedSupercell ==
    LET expected == IF last.supercell = None THEN Identity ELSE last.supercell
    IN  /\ last.op = "get_force_sets_from_file" =>
              /\ ret.kind = "force_sets"
              /\ ret.value.supercell = expected
              /\ ret.value.supercell # None
        /\ last.op = "get_force_constants_from_file" =>
              /\ ret = Returned("force_constants", "caller")
              /\ heap.caller[1].supercell = expected
              /\ heap.caller[1].supercell # None

C4_Witness ==
    /\ last.op = "get_force_constants_from_file"
    /\ last.supercell = None
    /\ heap.caller[1].supercell = Identity

\* C8 as stated: obtain_phonopy_dos with projected_on_atom outside 0 .. n-1
\* (n the number of atoms of the partial DOS) ends the process without a DOS;
\* with an index in 0 .. n-1 it returns the frequency axis paired with the
\* partial DOS of that atom.
C8_OutOfRangeExits ==
    last.op = "obtain_phonopy_dos" =>
        LET n == st_atoms[2]
            used == IF last.force_constants # NoRef
                    THEN heap[last.force_constants][1].array
                    ELSE heap[st_fc][1].array
        IN  /\ last.atom \notin 0..(n - 1) => exited /\ ret = Exit
            /\ (last.atom \in 0..(n - 1) /\ ~exited) =>
                  ret = Returned("dos", <<FrequencyPoints,
                                          PartialDOS(used, last.atom)>>)

\* C8 as amended: with an index of n or more the process ends without a DOS;
\* with a negative index (the default -1 among them) the call returns the
\* frequency axis paired with the total DOS; with an index in 0 .. n-1 it
\* returns the frequency axis paired with the partial DOS of that atom; both
\* DOS are multiplied by number_of_atoms / number_of_primitive_atoms.  The
\* call ends the process for an index below n only when it has no force
\* constants argument and the structure holds no force data.
C8_IndexAtOrAboveRangeExits ==
    last.op = "obtain_phonopy_dos" =>
        LET n == st_atoms[2]
            used == IF last.force_constants # NoRef
                    THEN heap[last.force_constants][1].array
                    ELSE heap[st_fc][1].array
        IN  /\ last.atom >= n => exited /\ ret = Exit
            /\ (last.atom < n /\ exited) =>
                  /\ ret = Exit
                  /\ last.force_constants = NoRef
                  /\ st_fc = NoRef
                  /\ st_fs = None
            /\ (last.atom < 0 /\ ~exited) =>
                  ret = Returned("dos", <<FrequencyPoints,
                                          NormalizeToUnitCell(TotalDOS(used))>>)
            /\ (last.atom \in 0..(n - 1) /\ ~exited) =>
                  ret = Returned("dos", <<FrequencyPoints,
                                          NormalizeToUnitCell(
                                              PartialDOS(used, last.atom))>>)

C8_Witness ==
    /\ last.op = "obtain_phonopy_dos"
    /\ last.atom < 0
    /\ ~exited
    /\ ret.kind = "dos"

\* C9: get_phonon with setup_forces=True uses the structure's force constants
\* when it holds some and leaves its force data as it is, force sets or not;
\* with force sets only it derives force constants and stores them on the
\* structure as a new ForceConstants with the supercell of the force sets.
\* The derivation happens at most once over the calls made on a structure,
\* and get_phonon with setup_forces=False reads, derives and stores nothing.
C9_ForceSourcePrecedence ==
    /\ [][last'.op = "get_phonon" =>
            /\ st_fs' = st_fs
            /\ IF ~last'.setup_forces
               THEN /\ st_fc' = st_fc
                    /\ heap' = heap
                    /\ derivations' = derivations
                    /\ ret'.value.force_constants = None
               ELSE IF st_fc # NoRef
               THEN /\ st_fc' = st_fc
                    /\ heap' = heap
                    /\ derivations' = derivations
                    /\ ret'.value.force_constants = <<heap[st_fc][1].array>>
               ELSE IF st_fs # None
               THEN /\ st_fc' # NoRef
                    /\ heap[st_fc'] = None
                    /\ heap'[st_fc'] =
                          <<[array |-> ProduceForceConstants(st_fs[1].dict),
                             supercell |-> st_fs[1].supercell]>>
                    /\ \A r \in Alive : heap'[r] = heap[r]
                    /\ derivations' = derivations + 1
                    /\ ret'.value.force_constants = <<heap'[st_fc'][1].array>>
               ELSE exited']_vars
    /\ [](derivations <= 1)

C9_Witness ==
    /\ last.op = "get_phonon"
    /\ last.setup_forces
    /\ derivations = 1
    /\ st_fs # None
    /\ ret.kind = "phonon"
    /\ ret.value.force_constants = <<heap[st_fc][1].array>>

(***************************************************************************)
(* The claim about the eigenvector layout, checked under SpecEV.           *)
(***************************************************************************)

\* C10: arranging a (D*P) x (D*P) mode matrix E as A[i][j][k] = E[j*D + k, i]
\* and then reshaping A to (D*P, D*P) in row-major order and transposing gives
\* E again: the component of mode i, atom j, dimension k is at position
\* (j*D + k, i), where it was.
C10_LayoutRoundTrip ==
    ev_pc = "reshaped" =>
        /\ reshaped_ev = eigenvectors
        /\ \A idx \in IndexSet(arranged_ev.shape) :
              reshaped_ev.at[<<(idx[2] - 1) * ev_dims[1] + idx[3], idx[1]>>]
                 = arranged_ev.at[idx]

C10_Witness ==
    /\ ev_pc = "reshaped"
    /\ ev_dims = <<2, 2>>
    /\ eigenvectors.at[<<1, 2>>] # eigenvectors.at[<<2, 1>>]
    /\ eigenvectors.at[<<2, 3>>] # eigenvectors.at[<<3, 2>>]
    /\ reshaped_ev = eigenvectors

====
